---- MODULE Spec2Model ----
(***************************************************************************)
(* Model of the TypedAnt language-server backend (lsp_backend/src/lib.rs). *)
(*                                                                         *)
(* A text is a sequence of characters, each character a one-element        *)
(* string.  Option values are sequences of length 0 (None) or 1 (Some).    *)
(* The lexer, parser and type checker are external crates; they are        *)
(* modelled by a small front end with the interface the backend consumes.  *)
(***************************************************************************)
EXTENDS Integers, Sequences, FiniteSets, Bags, TLC

(* ---------------------------- bounds ---------------------------------- *)

\* longest text of the pure-function specification
MaxLen == 3
\* largest cursor line / character of a completion position
MaxLine == 2
MaxChar == 3
\* number of notifications / requests the client sends
MaxTasks == 3
\* longest content-change list of a didChange notification
MaxChanges == 2

(* ---------------------------- characters ------------------------------ *)

NL == "\n"

\* a letter outside the Basic Multilingual Plane (MATHEMATICAL ITALIC SMALL X)
Wide == "U+1D465"

\* the characters texts are made of
Alphabet == {"x", "y", "X", Wide, NL, "#", "(", "?"}

\* char::is_alphanumeric
IsAlphanumeric(c) == c \in {"x", "y", "X", Wide}

\* the closure of current_ident's take_while
IsIdentChar(c) == IsAlphanumeric(c) \/ c = "_"

\* number of UTF-16 code units of one character: a surrogate pair outside
\* the Basic Multilingual Plane
Utf16Units(c) == IF c = Wide THEN 2 ELSE 1

\* utf16_len that counts characters instead of code units
utf16_len_CountsChars(s) == Len(s)

RECURSIVE utf16_len(_)
\* UTF16Len::utf16_len: encode_utf16().count()
utf16_len(s) == IF s = <<>> THEN 0 ELSE Utf16Units(Head(s)) + utf16_len(Tail(s))

Min(a, b) == IF a < b THEN a ELSE b

None == <<>>
Some(v) == <<v>>

(* ---------------------------- str helpers ----------------------------- *)

RECURSIVE SplitLines(_, _)
\* str::lines: the lines of a text, a final line terminator adds no line
SplitLines(s, cur) ==
    IF s = <<>> THEN (IF cur = <<>> THEN <<>> ELSE <<cur>>)
    ELSE IF Head(s) = NL THEN <<cur>> \o SplitLines(Tail(s), <<>>)
    ELSE SplitLines(Tail(s), Append(cur, Head(s)))

Lines(text) == SplitLines(text, <<>>)

Lower(c) == IF c = "X" THEN "x" ELSE c

\* starts_with that compares the characters without regard to case
StartsWith_IgnoreCase(name, prefix) ==
    /\ Len(prefix) <= Len(name)
    /\ \A k \in 1..Len(prefix) : Lower(name[k]) = Lower(prefix[k])

\* str::starts_with
StartsWith(name, prefix) ==
    /\ Len(prefix) <= Len(name)
    /\ SubSeq(name, 1, Len(prefix)) = prefix

(* ---------------------------- position codec -------------------------- *)

RECURSIVE LineStart(_, _, _, _, _)
\* current_ident, first loop: index (1-based) of the first character of the
\* cursor line; the loop stops when current_line reaches the cursor line or
\* when the text is exhausted
LineStart(text, i, current_line, line_start, line) ==
    IF i > Len(text) \/ current_line = line THEN line_start
    ELSE IF text[i] = NL
         THEN LineStart(text, i + 1, current_line + 1, i + 1, line)
         ELSE LineStart(text, i + 1, current_line, line_start, line)

RECURSIVE TrailingIdent(_)
\* current_ident, tail: chars().rev().take_while(..).rev()
TrailingIdent(before) ==
    IF before = <<>> THEN <<>>
    ELSE IF IsIdentChar(before[Len(before)])
         THEN Append(TrailingIdent(SubSeq(before, 1, Len(before) - 1)),
                     before[Len(before)])
         ELSE <<>>

\* current_ident(text, position)
current_ident(text, position) ==
    LET line_start == LineStart(text, 1, 0, 1, position.line)
        line == SubSeq(text, line_start, Len(text))
        \* one character consumed per step of 0..position.character
        col == Min(position.character, Len(line))
        before == SubSeq(line, 1, col)
    IN TrailingIdent(before)

\* calc_token_pos(text, token)
calc_token_pos(text, token) ==
    LET ls == Lines(text)
        line_text == IF token.line - 1 < Len(ls) THEN ls[token.line] ELSE <<>>
        prefix == SubSeq(line_text, 1, Min(token.column - 1, Len(line_text)))
        start == utf16_len(prefix)
    IN <<start, start + utf16_len(token.value)>>

(* ---------------------------- front end ------------------------------- *)
(* The external collaborators.  Identifier runs and single symbols are    *)
(* tokens; "#" is not lexable; every identifier token is a statement that  *)
(* binds the identifier; the parser rejects "(" and the type checker       *)
(* rejects "?".                                                            *)

RECURSIVE IdentEnd(_, _)
\* last index of the identifier run that starts at i
IdentEnd(text, i) ==
    IF i < Len(text) /\ IsIdentChar(text[i + 1]) THEN IdentEnd(text, i + 1) ELSE i

RECURSIVE Tokenize(_, _, _, _)
\* Lexer::get_tokens: tokens carry a 1-based line, a 1-based column counted
\* in characters, and the literal value
Tokenize(text, i, line, column) ==
    IF i > Len(text) THEN <<>>
    ELSE IF text[i] = NL THEN Tokenize(text, i + 1, line + 1, 1)
    ELSE LET j == IF IsIdentChar(text[i]) THEN IdentEnd(text, i) ELSE i
         IN <<[line |-> line, column |-> column,
               value |-> SubSeq(text, i, j)]>>
            \o Tokenize(text, j + 1, line, column + (j - i + 1))

get_tokens(text) == Tokenize(text, 1, 1, 1)

\* Lexer::contains_error
contains_error(text) == \E i \in 1..Len(text) : text[i] = "#"

IsIdentToken(tok) == IsIdentChar(tok.value[1])

\* Parser::parse_program: the syntax tree (the statements), or the error
\* with the offending token
parse_program(tokens) ==
    LET bad == {i \in 1..Len(tokens) : tokens[i].value = <<"(">>}
    IN IF bad = {} THEN [ok |-> TRUE, ast |-> tokens, err |-> None]
       ELSE LET i == CHOOSE k \in bad : \A m \in bad : k <= m
            IN [ok |-> FALSE, ast |-> <<>>,
                err |-> Some([token |-> tokens[i], kind |-> "UnexpectedToken",
                              message |-> None])]

\* TypeTable::new().init(): the table pre-seeded with the built-ins
InitTable == [var_map |-> {<<"X", "y">>}]

RECURSIVE check_node(_, _)
\* TypeChecker::check_node: walks the statements in order and binds each
\* identifier in the shared table; the bindings made before an error stay
check_node(ast, table) ==
    IF ast = <<>> THEN [ok |-> TRUE, table |-> table, err |-> None]
    ELSE IF Head(ast).value = <<"?">>
         THEN [ok |-> FALSE, table |-> table,
               err |-> Some([token |-> Head(ast), kind |-> "TypeMismatch",
                             message |-> Some("type error")])]
    ELSE IF IsIdentToken(Head(ast))
         THEN check_node(Tail(ast),
                         [var_map |-> table.var_map \cup {Head(ast).value}])
         ELSE check_node(Tail(ast), table)

(* ---------------------------- analyze --------------------------------- *)

\* documents are identified by URI; a file URI has a filesystem path
FileUri == [scheme |-> "file", path |-> "/a.ant"]
MemUri == [scheme |-> "untitled", path |-> "b"]
Uris == {FileUri, MemUri}

\* Url::to_string
UriString(uri) == <<uri.scheme, ":", uri.path>>

\* the label that is the URI's string form also for a file URI
FileLabel_AlwaysUriString(uri) == UriString(uri)

\* analyze, lines 92-94: the path of a file URI, else the URI's string form
FileLabel(uri) == IF uri.scheme = "file" THEN <<uri.path>> ELSE UriString(uri)

\* Range::default(): the document start
DefaultRange == [start |-> [line |-> 0, character |-> 0],
                 end |-> [line |-> 0, character |-> 0]]

\* analyze, the closure of map_err: the diagnostic of a parser or
\* type-checker error
ErrorDiagnostic(text, file, err) ==
    LET line == err.token.line - 1
        pos == calc_token_pos(text, err.token)
    IN [range |-> [start |-> [line |-> line, character |-> pos[1]],
                   end |-> [line |-> line, character |-> pos[2]]],
        severity |-> "ERROR",
        message |-> IF err.message # None THEN err.message[1] ELSE err.kind,
        source |-> file]

\* analyze that hands the tokens to the type checker although the parser
\* failed
analyze_ChecksAfterParseError(text, uri, table) ==
    LET file == FileLabel(uri)
        tokens == get_tokens(text)
        parsed == parse_program(tokens)
        checked == check_node(tokens, table)
    IN IF contains_error(text)
       THEN [ok |-> FALSE, table |-> table, ran |-> <<"lexer">>,
             diag |-> Some([range |-> DefaultRange, severity |-> "ERROR",
                            message |-> "lexer error", source |-> file])]
       ELSE IF ~parsed.ok
       THEN [ok |-> FALSE, table |-> checked.table,
             ran |-> <<"lexer", "parser", "checker">>,
             diag |-> Some(ErrorDiagnostic(text, file, parsed.err[1]))]
       ELSE IF ~checked.ok
       THEN [ok |-> FALSE, table |-> checked.table,
             ran |-> <<"lexer", "parser", "checker">>,
             diag |-> Some(ErrorDiagnostic(text, file, checked.err[1]))]
       ELSE [ok |-> TRUE, table |-> checked.table,
             ran |-> <<"lexer", "parser", "checker">>, diag |-> None]

\* analyze(text, uri, table): the result, the table as the pass leaves it,
\* and the stages that ran
analyze(text, uri, table) ==
    LET file == FileLabel(uri)
        tokens == get_tokens(text)
        parsed == parse_program(tokens)
        checked == check_node(parsed.ast, table)
    IN IF contains_error(text)
       THEN [ok |-> FALSE, table |-> table, ran |-> <<"lexer">>,
             diag |-> Some([range |-> DefaultRange, severity |-> "ERROR",
                            message |-> "lexer error", source |-> file])]
       ELSE IF ~parsed.ok
       THEN [ok |-> FALSE, table |-> table, ran |-> <<"lexer", "parser">>,
             diag |-> Some(ErrorDiagnostic(text, file, parsed.err[1]))]
       ELSE IF ~checked.ok
       THEN [ok |-> FALSE, table |-> checked.table,
             ran |-> <<"lexer", "parser", "checker">>,
             diag |-> Some(ErrorDiagnostic(text, file, checked.err[1]))]
       ELSE [ok |-> TRUE, table |-> checked.table,
             ran |-> <<"lexer", "parser", "checker">>, diag |-> None]

(* ---------------------------- completion ------------------------------ *)

\* the sequences that enumerate the set S once each: the iteration orders a
\* HashMap with key set S can have
Orderings(S) ==
    {o \in [1..Cardinality(S) -> S] : \A k \in S : \E i \in DOMAIN o : o[i] = k}

RECURSIVE FilterKeys(_, _)
\* completion, line 244: filter(|name| name.starts_with(&prefix))
FilterKeys(keys, prefix) ==
    IF keys = <<>> THEN <<>>
    ELSE IF StartsWith(Head(keys), prefix)
         THEN <<Head(keys)>> \o FilterKeys(Tail(keys), prefix)
         ELSE FilterKeys(Tail(keys), prefix)

\* completion, lines 245-250: the item built for one key
CompletionItem(name) ==
    [label |-> name, kind |-> "VARIABLE", insert_text |-> name]

\* completion, lines 234-253: the items for a document that is in the store;
\* keys is var_map.keys() in the table's iteration order
CompletionItems(text, uri, position, keys) ==
    LET prefix == current_ident(text, position)
        kept == FilterKeys(keys, prefix)
    IN [i \in 1..Len(kept) |-> CompletionItem(kept[i])]

\* the table a completion request reads: analyze's table, its error dropped
CompletionTable(text, uri) == analyze(text, uri, InitTable).table

(* ---------------------------- protocol state -------------------------- *)

\* the texts and cursor positions the client sends in the protocol
\* specification
GoodText == <<"x">>
ParseErrorText == <<"x", NL, "(">>
DocTexts == {GoodText, ParseErrorText}
Cursors == {[line |-> 0, character |-> 1], [line |-> 1, character |-> 0]}

VARIABLES
    documents,      \* Backend.documents: URI -> Option of text
    lock,           \* the RwLock of documents: a writer holds it, the readers that hold it
    tasks,          \* the bag of handler futures in flight
    received,       \* the number of messages received from the client
    editing,        \* the document the client works on in this session
    client,         \* the diagnostics the client shows for each URI
    published,      \* history: what the last publish for a URI was computed from
    expected,       \* history: the store content in the client's sending order
    isOpen,         \* history: the URI's last didOpen/didClose was a didOpen
    closedClean,    \* history: a didClose finished, no open/change received since
    fixedAfterError, \* history: the last store write replaced failing by passing text
    lastStoreOp,    \* history: the last store operation on the URI
    lastCompletion, \* history: the last completion request answered
    input,          \* pure-function specification: the text and position
    output          \* pure-function specification: the result of the function

protoVars == <<documents, lock, tasks, received, editing, client, published, expected, isOpen,
               closedClean, fixedAfterError, lastStoreOp, lastCompletion>>
pureVars == <<input, output>>
histVars == <<published, expected, isOpen, closedClean, fixedAfterError,
              lastStoreOp, lastCompletion>>
vars == <<protoVars, pureVars>>

NoInput == [text |-> <<>>, uri |-> FileUri, position |-> [line |-> 0, character |-> 0]]
NoOutput == [op |-> "none"]

\* Backend as main constructs it: an empty map behind an unlocked RwLock
ProtoInit ==
    /\ documents = [u \in Uris |-> None]
    /\ lock = [writer |-> FALSE, readers |-> 0]
    /\ tasks = EmptyBag
    /\ received = 0
    /\ editing \in Uris
    /\ client = [u \in Uris |-> <<>>]
    /\ published = [u \in Uris |-> [kind |-> "none", from |-> None, store |-> None]]
    /\ expected = [u \in Uris |-> None]
    /\ isOpen = [u \in Uris |-> FALSE]
    /\ closedClean = [u \in Uris |-> FALSE]
    /\ fixedAfterError = [u \in Uris |-> FALSE]
    /\ lastStoreOp = [u \in Uris |-> "none"]
    /\ lastCompletion = None

Init ==
    /\ ProtoInit
    /\ input = NoInput
    /\ output = NoOutput

\* a handler future that has not been polled yet
NewTask(kind, uri) ==
    [kind |-> kind, uri |-> uri, pc |-> "start", text |-> None,
     content_changes |-> <<>>, position |-> [line |-> 0, character |-> 0],
     diags |-> <<>>]

\* the server creates the handler future of a received message
Spawn(task) ==
    /\ received < MaxTasks
    /\ received' = received + 1
    /\ tasks' = tasks (+) SetToBag({task})

\* a handler future moves to its next await
Step(task, next) == tasks' = (tasks (-) SetToBag({task})) (+) SetToBag({next})

\* a handler future completes and is dropped
Finish(task) == tasks' = tasks (-) SetToBag({task})

InFlight == BagToSet(tasks)

Quiescent == tasks = EmptyBag

\* whether all three stages accept the text
Passes(text) ==
    /\ ~contains_error(text)
    /\ parse_program(get_tokens(text)).ok
    /\ check_node(parse_program(get_tokens(text)).ast, InitTable).ok

\* check_and_publish that publishes the empty list in both branches
check_and_publish_DropsError(uri, text) == <<>>

\* check_and_publish, lines 158-170: the list handed to publish_diagnostics
check_and_publish(uri, text) ==
    LET res == analyze(text, uri, InitTable)
    IN IF res.ok THEN <<>> ELSE <<res.diag[1]>>

\* the content change taken from the front of the list
LastChange_First(content_changes) ==
    IF content_changes = <<>> THEN None ELSE Some(content_changes[1])

\* did_change, line 210: params.content_changes.last()
LastChange(content_changes) ==
    IF content_changes = <<>> THEN None
    ELSE Some(content_changes[Len(content_changes)])

\* check_and_publish and analyze are pure: their results for the texts the
\* client sends, computed once
Diagnostics == [u \in Uris |-> [t \in DocTexts |-> check_and_publish(u, t)]]
PassesOf == [t \in DocTexts |-> Passes(t)]
TableOf == [u \in Uris |-> [t \in DocTexts |-> CompletionTable(t, u)]]

(* ---------------------------- the client ------------------------------ *)

\* the content-change lists of a didChange notification: up to MaxChanges
\* full texts, each different from the one before it
ChangeLists ==
    {cs \in UNION {[1..n -> DocTexts] : n \in 0..MaxChanges} :
        \A k \in 1..(Len(cs) - 1) : cs[k] # cs[k + 1]}

\* the client sends textDocument/didOpen; the server creates the handler
ClientDidOpen(u, t) ==
    /\ Spawn([NewTask("did_open", u) EXCEPT !.text = Some(t)])
    /\ expected' = [expected EXCEPT ![u] = Some(t)]
    /\ isOpen' = [isOpen EXCEPT ![u] = TRUE]
    /\ closedClean' = [closedClean EXCEPT ![u] = FALSE]
    /\ UNCHANGED <<documents, lock, client, published, fixedAfterError,
                   lastStoreOp, lastCompletion, editing, pureVars>>

\* the client sends textDocument/didChange
ClientDidChange(u, cs) ==
    /\ Spawn([NewTask("did_change", u) EXCEPT !.content_changes = cs])
    /\ expected' = [expected EXCEPT ![u] = IF cs = <<>> THEN @ ELSE LastChange(cs)]
    /\ closedClean' = [closedClean EXCEPT ![u] = FALSE]
    /\ UNCHANGED <<documents, lock, client, published, isOpen, fixedAfterError,
                   lastStoreOp, lastCompletion, editing, pureVars>>

\* the client sends textDocument/didClose
ClientDidClose(u) ==
    /\ Spawn(NewTask("did_close", u))
    /\ expected' = [expected EXCEPT ![u] = None]
    /\ isOpen' = [isOpen EXCEPT ![u] = FALSE]
    /\ UNCHANGED <<documents, lock, client, published, closedClean,
                   fixedAfterError, lastStoreOp, lastCompletion, editing, pureVars>>

\* the client sends textDocument/completion
ClientCompletion(u, pos) ==
    /\ Spawn([NewTask("completion", u) EXCEPT !.position = pos])
    /\ UNCHANGED <<documents, lock, client, histVars, editing, pureVars>>

(* ---------------------------- the handlers ---------------------------- *)

LockFree == ~lock.writer /\ lock.readers = 0

\* did_open line 203, did_change line 212, did_close line 218:
\* self.documents.write().await completes
AcquireWrite(task) ==
    /\ task.pc = "start"
    /\ \/ task.kind \in {"did_open", "did_close"}
       \/ task.kind = "did_change" /\ task.content_changes # <<>>
    /\ LockFree
    /\ lock' = [lock EXCEPT !.writer = TRUE]
    /\ Step(task, [task EXCEPT !.pc = "locked"])
    /\ UNCHANGED <<documents, received, client, histVars, editing, pureVars>>

\* did_open that binds the write guard to a local and so keeps it across the
\* await of the publish
DidOpenInsert_KeepsGuard(task) ==
    LET u == task.uri
        text == task.text[1]
    IN /\ task.kind = "did_open"
       /\ task.pc = "locked"
       /\ documents' = [documents EXCEPT ![u] = Some(text)]
       /\ Step(task, [task EXCEPT !.pc = "publish",
                                  !.diags = Diagnostics[u][text]])
       /\ fixedAfterError' = [fixedAfterError EXCEPT ![u] = FALSE]
       /\ lastStoreOp' = [lastStoreOp EXCEPT ![u] = "insert"]
       /\ UNCHANGED <<lock, received, client, published, expected, isOpen,
                      closedClean, lastCompletion, editing, pureVars>>

\* did_open, lines 203-204 up to the await of the publish: insert, drop the
\* guard, analyze
DidOpenInsert(task) ==
    LET u == task.uri
        text == task.text[1]
    IN /\ task.kind = "did_open"
       /\ task.pc = "locked"
       /\ documents' = [documents EXCEPT ![u] = Some(text)]
       /\ lock' = [lock EXCEPT !.writer = FALSE]
       /\ Step(task, [task EXCEPT !.pc = "publish",
                                  !.diags = Diagnostics[u][text]])
       /\ fixedAfterError' = [fixedAfterError EXCEPT ![u] = FALSE]
       /\ lastStoreOp' = [lastStoreOp EXCEPT ![u] = "insert"]
       /\ UNCHANGED <<received, client, published, expected, isOpen,
                      closedClean, lastCompletion, editing, pureVars>>

\* did_change, lines 210-213 up to the await of the publish
DidChangeInsert(task) ==
    LET u == task.uri
        text == LastChange(task.content_changes)[1]
    IN /\ task.kind = "did_change"
       /\ task.pc = "locked"
       /\ documents' = [documents EXCEPT ![u] = Some(text)]
       /\ lock' = [lock EXCEPT !.writer = FALSE]
       /\ Step(task, [task EXCEPT !.pc = "publish",
                                  !.text = Some(text),
                                  !.diags = Diagnostics[u][text]])
       /\ fixedAfterError' =
              [fixedAfterError EXCEPT ![u] = /\ documents[u] # None
                                             /\ ~PassesOf[documents[u][1]]
                                             /\ PassesOf[text]]
       /\ lastStoreOp' = [lastStoreOp EXCEPT ![u] = "insert"]
       /\ UNCHANGED <<received, client, published, expected, isOpen,
                      closedClean, lastCompletion, editing, pureVars>>

\* did_change, line 210: no content change, the handler returns
DidChangeEmpty(task) ==
    /\ task.kind = "did_change"
    /\ task.pc = "start"
    /\ task.content_changes = <<>>
    /\ Finish(task)
    /\ UNCHANGED <<documents, lock, received, client, histVars, editing, pureVars>>

\* did_close, line 218: remove, drop the guard
DidCloseRemove(task) ==
    LET u == task.uri
    IN /\ task.kind = "did_close"
       /\ task.pc = "locked"
       /\ documents' = [documents EXCEPT ![u] = None]
       /\ lock' = [lock EXCEPT !.writer = FALSE]
       /\ Step(task, [task EXCEPT !.pc = "publish", !.diags = <<>>])
       /\ fixedAfterError' = [fixedAfterError EXCEPT ![u] = FALSE]
       /\ lastStoreOp' = [lastStoreOp EXCEPT ![u] = "remove"]
       /\ UNCHANGED <<received, client, published, expected, isOpen,
                      closedClean, lastCompletion, editing, pureVars>>

\* check_and_publish, lines 161 and 165-167: client.publish_diagnostics
\* completes and the handler returns
PublishDiagnostics(task) ==
    LET u == task.uri
    IN /\ task.kind \in {"did_open", "did_change"}
       /\ task.pc = "publish"
       /\ client' = [client EXCEPT ![u] = task.diags]
       /\ published' = [published EXCEPT ![u] =
              [kind |-> "analysis", from |-> task.text, store |-> documents[u]]]
       /\ Finish(task)
       /\ UNCHANGED <<documents, lock, received, expected, isOpen, closedClean,
                      fixedAfterError, lastStoreOp, lastCompletion, editing, pureVars>>

\* did_close, lines 219-221: the empty publish completes, the handler returns
DidClosePublish(task) ==
    LET u == task.uri
    IN /\ task.kind = "did_close"
       /\ task.pc = "publish"
       /\ client' = [client EXCEPT ![u] = <<>>]
       /\ published' = [published EXCEPT ![u] =
              [kind |-> "close", from |-> None, store |-> documents[u]]]
       /\ closedClean' = [closedClean EXCEPT ![u] = TRUE]
       /\ Finish(task)
       /\ UNCHANGED <<documents, lock, received, expected, isOpen,
                      fixedAfterError, lastStoreOp, lastCompletion, editing, pureVars>>

\* completion that clones the text and drops the read guard at the lookup
AcquireRead_NoGuard(task) ==
    /\ task.kind = "completion"
    /\ task.pc = "start"
    /\ ~lock.writer
    /\ Step(task, [task EXCEPT !.pc = "reading"])
    /\ UNCHANGED <<documents, lock, received, client, histVars, editing, pureVars>>

\* completion, line 228: self.documents.read().await completes
AcquireRead(task) ==
    /\ task.kind = "completion"
    /\ task.pc = "start"
    /\ ~lock.writer
    /\ lock' = [lock EXCEPT !.readers = @ + 1]
    /\ Step(task, [task EXCEPT !.pc = "reading"])
    /\ UNCHANGED <<documents, received, client, histVars, editing, pureVars>>

\* completion that answers an empty list for a document not in the store
completion_EmptyForAbsent(docs, uri, position, keys) ==
    IF docs[uri] = None THEN Some(<<>>)
    ELSE Some(CompletionItems(docs[uri][1], uri, position, keys))

\* completion, lines 229-253: the response for the looked-up text
completion(docs, uri, position, keys) ==
    IF docs[uri] = None THEN None
    ELSE Some(CompletionItems(docs[uri][1], uri, position, keys))

\* completion that publishes the diagnostics of its own analysis pass
CompletionRespond_Publishes(task) ==
    LET u == task.uri
        table == IF documents[u] = None THEN InitTable
                 ELSE TableOf[u][documents[u][1]]
    IN /\ task.kind = "completion"
       /\ task.pc = "reading"
       /\ \E keys \in Orderings(table.var_map) :
             lastCompletion' = Some([uri |-> u, position |-> task.position,
                                     doc |-> documents[u],
                                     storeOp |-> lastStoreOp[u],
                                     response |-> completion(documents, u,
                                                     task.position, keys)])
       /\ client' = [client EXCEPT ![u] =
              IF documents[u] = None THEN @
              ELSE Diagnostics[u][documents[u][1]]]
       /\ lock' = [lock EXCEPT !.readers = @ - 1]
       /\ Finish(task)
       /\ UNCHANGED <<documents, received, published, expected, isOpen,
                      closedClean, fixedAfterError, lastStoreOp, editing, pureVars>>

\* completion, lines 229-254: look up, analyze, filter, respond; the read
\* guard is dropped on return
CompletionRespond(task) ==
    LET u == task.uri
        table == IF documents[u] = None THEN InitTable
                 ELSE TableOf[u][documents[u][1]]
    IN /\ task.kind = "completion"
       /\ task.pc = "reading"
       /\ \E keys \in Orderings(table.var_map) :
             lastCompletion' = Some([uri |-> u, position |-> task.position,
                                     doc |-> documents[u],
                                     storeOp |-> lastStoreOp[u],
                                     response |-> completion(documents, u,
                                                     task.position, keys)])
       /\ lock' = [lock EXCEPT !.readers = @ - 1]
       /\ Finish(task)
       /\ UNCHANGED <<documents, received, client, published, expected, isOpen,
                      closedClean, fixedAfterError, lastStoreOp, editing, pureVars>>

Next ==
    \/ \E t \in DocTexts : ClientDidOpen(editing, t)
    \/ \E cs \in ChangeLists : ClientDidChange(editing, cs)
    \/ ClientDidClose(editing)
    \/ \E pos \in Cursors : ClientCompletion(editing, pos)
    \/ \E task \in InFlight : AcquireWrite(task)
    \/ \E task \in InFlight : DidOpenInsert(task)
    \/ \E task \in InFlight : DidChangeInsert(task)
    \/ \E task \in InFlight : DidChangeEmpty(task)
    \/ \E task \in InFlight : DidCloseRemove(task)
    \/ \E task \in InFlight : PublishDiagnostics(task)
    \/ \E task \in InFlight : DidClosePublish(task)
    \/ \E task \in InFlight : AcquireRead(task)
    \/ \E task \in InFlight : CompletionRespond(task)

Spec == Init /\ [][Next]_vars

\* some handler future in flight takes a step
HandlerStep ==
    \E task \in InFlight :
        \/ AcquireWrite(task)
        \/ DidOpenInsert(task)
        \/ DidChangeInsert(task)
        \/ DidChangeEmpty(task)
        \/ DidCloseRemove(task)
        \/ PublishDiagnostics(task)
        \/ DidClosePublish(task)
        \/ AcquireRead(task)
        \/ CompletionRespond(task)

\* the content-change lists of the client of the fair specification
FairChangeLists == {<<>>, <<GoodText>>}

\* the steps of the fair specification: the client opens the failing text,
\* changes it to the passing one, closes, and completes at the first cursor
NextFair ==
    \/ ClientDidOpen(editing, ParseErrorText)
    \/ \E cs \in FairChangeLists : ClientDidChange(editing, cs)
    \/ ClientDidClose(editing)
    \/ ClientCompletion(editing, [line |-> 0, character |-> 1])
    \/ HandlerStep

\* the executor polls every ready handler future again, and a publish to the
\* client completes
SpecFair == Init /\ [][NextFair]_vars /\ WF_vars(HandlerStep)

(* ---------------------------- pure functions -------------------------- *)
(* A second specification: the input is drawn from the bounded texts and  *)
(* positions, and each action applies one function of the backend to it.  *)

AllTexts == UNION {[1..n -> Alphabet] : n \in 0..MaxLen}
AllPositions == [line : 0..MaxLine, character : 0..MaxChar]

InitPure ==
    /\ ProtoInit
    /\ editing = FileUri
    /\ input \in [text : AllTexts, uri : Uris, position : AllPositions]
    /\ output = NoOutput

\* analyze(text, uri, table) on a fresh table
RunAnalyze ==
    /\ output = NoOutput
    /\ output' = [op |-> "analyze",
                  res |-> analyze(input.text, input.uri, InitTable)]
    /\ UNCHANGED <<input, protoVars>>

\* Backend::completion on a store that holds the text under the URI
RunCompletion ==
    /\ output = NoOutput
    /\ \E keys \in Orderings(CompletionTable(input.text, input.uri).var_map) :
          output' = [op |-> "completion",
                     response |-> completion([u \in Uris |-> Some(input.text)],
                                             input.uri, input.position, keys)]
    /\ UNCHANGED <<input, protoVars>>

\* current_ident(text, position)
RunCurrentIdent ==
    /\ output = NoOutput
    /\ output' = [op |-> "current_ident",
                  ident |-> current_ident(input.text, input.position)]
    /\ UNCHANGED <<input, protoVars>>

\* the literal values of the tokens handed to calc_token_pos
TokenValues == {<<"(">>, <<Wide>>, <<"x", Wide>>}

\* the token whose 1-based line and column are the input position
TokenAt(position, value) ==
    [line |-> position.line + 1, column |-> position.character + 1,
     value |-> value]

\* calc_token_pos(text, token)
RunCalcTokenPos ==
    /\ output = NoOutput
    /\ \E value \in TokenValues :
          output' = [op |-> "calc_token_pos",
                     token |-> TokenAt(input.position, value),
                     pos |-> calc_token_pos(input.text,
                                            TokenAt(input.position, value))]
    /\ UNCHANGED <<input, protoVars>>

NextPure == RunAnalyze \/ RunCompletion \/ RunCurrentIdent \/ RunCalcTokenPos

SpecPure == InitPure /\ [][NextPure]_vars

(* ---------------------------- properties ------------------------------ *)

Range(seq) == {seq[i] : i \in DOMAIN seq}

\* C1: every diagnostics publish of a didOpen/didChange handler was computed
\* from the text the store holds for the URI at the moment of the publish.
C1_NoStalePublish ==
    \A u \in Uris :
        published[u].kind = "analysis" => published[u].from = published[u].store

\* C2: once a didClose handler for a URI has finished, the client's
\* diagnostics for the URI are empty until a later didOpen/didChange
\* notification for the URI is received.
C2_ClosedStaysClear ==
    \A u \in Uris : closedClean[u] => client[u] = <<>>

\* C3: when the text fails to parse at a token that comes after a statement
\* binding an identifier, a completion whose cursor prefix is that identifier
\* returns a list that includes it.
C3_BindingsBeforeParseError ==
    lastCompletion # None =>
        LET c == lastCompletion[1]
            text == c.doc[1]
            tokens == get_tokens(text)
            parsed == parse_program(tokens)
            prefix == current_ident(text, c.position)
        IN (/\ c.doc # None
            /\ ~contains_error(text)
            /\ ~parsed.ok
            /\ \E k \in 1..Len(tokens) :
                  /\ tokens[k].value = prefix
                  /\ IsIdentToken(tokens[k])
                  /\ tokens[k].line < parsed.err[1].token.line)
           => /\ c.response # None
              /\ \E n \in 1..Len(c.response[1]) : c.response[1][n].label = prefix

C5_NoEntryUnlessOpen ==
    \A u \in Uris : (Quiescent /\ ~isOpen[u]) => documents[u] = None

\* C6: a completion request answers None exactly when the store has no entry
\* for the URI at the lookup, in particular when the last store operation on
\* the URI was the removal of a didClose, or when there was none.
C6_AbsentGivesNone ==
    lastCompletion # None =>
        LET c == lastCompletion[1]
        IN /\ (c.response = None) <=> (c.doc = None)
           /\ c.storeOp \in {"remove", "none"} => c.response = None

C6_Witness ==
    /\ lastCompletion # None
    /\ lastCompletion[1].storeOp = "remove"
    /\ lastCompletion[1].response = None
    /\ \E u \in Uris : expected[u] = None /\ closedClean[u]
                       /\ u = lastCompletion[1].uri

\* C7: every publish carries at most one diagnostic; the publish of a
\* didOpen/didChange handler is empty exactly when the analysis of its text
\* succeeded and holds one diagnostic when it failed.
C7_AtMostOneDiagnostic ==
    /\ \A u \in Uris :
          /\ Len(client[u]) <= 1
          /\ published[u].kind = "analysis" =>
                /\ (client[u] = <<>>) <=> Passes(published[u].from[1])
                /\ ~Passes(published[u].from[1]) => Len(client[u]) = 1
          /\ published[u].kind = "close" => client[u] = <<>>
    /\ \A task \in InFlight : Len(task.diags) <= 1

C7_Witness ==
    \E u \in Uris :
        /\ published[u].kind = "analysis"
        /\ Len(client[u]) = 1
        /\ client[u][1].severity = "ERROR"

\* C8: when a didChange replaces text whose analysis fails by text whose
\* analysis succeeds, the last publish for the URI is the empty list computed
\* from the new text.
C8_FixSupersedesError ==
    \A u \in Uris :
        (Quiescent /\ fixedAfterError[u]) =>
            /\ client[u] = <<>>
            /\ published[u].kind = "analysis"
            /\ published[u].from = documents[u]

\* C9: analyze runs lexer, parser, type checker in this order and returns the
\* first error only: no parser after a lexer error, no type checker (and an
\* untouched table) after a lexer or parser error, Ok only when all succeed.
C9_FirstErrorOnly ==
    output.op = "analyze" =>
        LET r == output.res
            text == input.text
            lexOk == ~contains_error(text)
            parsed == parse_program(get_tokens(text))
        IN /\ \E n \in 1..3 : r.ran = SubSeq(<<"lexer", "parser", "checker">>, 1, n)
           /\ ("parser" \in Range(r.ran)) <=> lexOk
           /\ ("checker" \in Range(r.ran)) <=> (lexOk /\ parsed.ok)
           /\ "checker" \notin Range(r.ran) => r.table = InitTable
           /\ r.ok <=> Passes(text)
           /\ r.ok <=> (r.diag = None)
           /\ ~lexOk => r.diag[1].message = "lexer error"
           /\ (lexOk /\ ~parsed.ok) =>
                 /\ r.diag[1].message = parsed.err[1].kind
                 /\ r.diag[1].range.start.line = parsed.err[1].token.line - 1
           /\ (lexOk /\ parsed.ok /\ ~r.ok) => r.diag[1].message = "type error"

C9_Witness ==
    /\ output.op = "analyze"
    /\ contains_error(input.text)
    /\ ~parse_program(get_tokens(input.text)).ok
    /\ \E k \in 1..Len(input.text) : IsIdentChar(input.text[k])
    /\ output.res.ran = <<"lexer">>
    /\ output.res.table = InitTable

\* C10: for a document in the store the response holds exactly one candidate
\* per symbol-table key that starts with the cursor prefix and none for any
\* other key; label and insert text are the key, the kind is variable; an
\* empty prefix returns every key.
C10_ExactlyThePrefixedKeys ==
    output.op = "completion" =>
        LET keys == CompletionTable(input.text, input.uri).var_map
            prefix == current_ident(input.text, input.position)
            wanted == {k \in keys : \E rest \in Range([n \in 0..Len(k) |->
                                        SubSeq(k, n + 1, Len(k))]) :
                                        k = prefix \o rest}
        IN /\ output.response # None
           /\ LET items == output.response[1]
              IN /\ {items[n].label : n \in 1..Len(items)} = wanted
                 /\ Len(items) = Cardinality(wanted)
                 /\ \A n \in 1..Len(items) :
                       /\ items[n].insert_text = items[n].label
                       /\ items[n].kind = "VARIABLE"
                 /\ prefix = <<>> => Len(items) = Cardinality(keys)

C10_Witness ==
    /\ output.op = "completion"
    /\ current_ident(input.text, input.position) # <<>>
    /\ output.response # None
    /\ Len(output.response[1]) >= 1
    /\ Len(output.response[1]) <
          Cardinality(CompletionTable(input.text, input.uri).var_map)

(* The lines of a text as the editor counts them: line l (0-based) lies    *)
(* between the l-th and the (l+1)-th line terminator.                      *)
Newlines(text) == {i \in 1..Len(text) : text[i] = NL}

NthNewline(text, n) ==
    CHOOSE i \in Newlines(text) :
        Cardinality({j \in Newlines(text) : j < i}) = n - 1

LineExists(text, l) == l <= Cardinality(Newlines(text))

LineOf(text, l) ==
    LET first == IF l = 0 THEN 1 ELSE NthNewline(text, l) + 1
        last == IF l = Cardinality(Newlines(text)) THEN Len(text)
                ELSE NthNewline(text, l + 1) - 1
    IN SubSeq(text, first, last)

\* code units of a string: one per character and one more per character
\* outside the Basic Multilingual Plane
CodeUnits(str) == Len(str) + Cardinality({i \in 1..Len(str) : str[i] = Wide})

\* the identifier run that ends after the first n characters of the line:
\* identifier characters only, not preceded by an identifier character
IsIdentRunAt(ident, line, n) ==
    /\ Len(ident) <= n
    /\ ident = SubSeq(line, n - Len(ident) + 1, n)
    /\ \A k \in 1..Len(ident) : IsAlphanumeric(ident[k]) \/ ident[k] = "_"
    /\ Len(ident) < n =>
          LET c == line[n - Len(ident)] IN ~(IsAlphanumeric(c) \/ c = "_")

\* C11: for a position whose character is a UTF-16 offset inside its line,
\* current_ident returns the maximal identifier run that ends at the cursor.
C11_IdentAtUtf16Offset ==
    output.op = "current_ident" =>
        LET text == input.text
            l == input.position.line
        IN LineExists(text, l) =>
              \A n \in 0..Len(LineOf(text, l)) :
                  CodeUnits(SubSeq(LineOf(text, l), 1, n)) = input.position.character
                  => IsIdentRunAt(output.ident, LineOf(text, l), n)

\* C12: a character beyond the end of the cursor line is clamped to the end
\* of that line: the result is the identifier run that ends the line.
C12_ClampToLineEnd ==
    output.op = "current_ident" =>
        LET text == input.text
            l == input.position.line
        IN (/\ LineExists(text, l)
            /\ input.position.character > CodeUnits(LineOf(text, l)))
           => IsIdentRunAt(output.ident, LineOf(text, l), Len(LineOf(text, l)))

\* C13: a cursor line beyond the last line of the text is an empty line:
\* current_ident returns the empty string.
C13_LineBeyondEndIsEmpty ==
    output.op = "current_ident" =>
        (~LineExists(input.text, input.position.line) => output.ident = <<>>)

\* C14: calc_token_pos returns start = the UTF-16 length of the first
\* column-1 characters of the token's line and end = start + the UTF-16
\* length of the token's value; a line that does not exist is empty.
C14_TokenRangeInCodeUnits ==
    output.op = "calc_token_pos" =>
        LET tok == output.token
            line == IF LineExists(input.text, tok.line - 1)
                    THEN LineOf(input.text, tok.line - 1) ELSE <<>>
            before == SubSeq(line, 1, Min(tok.column - 1, Len(line)))
        IN /\ output.pos[1] = CodeUnits(before)
           /\ output.pos[2] = output.pos[1] + CodeUnits(tok.value)
           /\ ~LineExists(input.text, tok.line - 1) => output.pos[1] = 0

C14_Witness ==
    /\ output.op = "calc_token_pos"
    /\ LineExists(input.text, output.token.line - 1)
    /\ output.token.column >= 2
    /\ output.pos[1] > output.token.column - 1
    /\ output.pos[2] = output.pos[1] + 3

\* C16: on a lexer error analyze returns severity error, message "lexer
\* error", the document label as source and the range at the document start,
\* wherever the error is in the text.
C16_LexerDiagnostic ==
    (output.op = "analyze" /\ \E i \in 1..Len(input.text) : input.text[i] = "#")
    => output.res.diag =
          <<[severity |-> "ERROR", message |-> "lexer error",
             source |-> IF input.uri.scheme = "file" THEN <<input.uri.path>>
                        ELSE <<input.uri.scheme, ":", input.uri.path>>,
             range |-> [start |-> [line |-> 0, character |-> 0],
                        end |-> [line |-> 0, character |-> 0]]]>>

C16_Witness ==
    /\ output.op = "analyze"
    /\ Len(input.text) = 3
    /\ input.text[2] = NL
    /\ input.text[3] = "#"
    /\ input.uri = FileUri
    /\ output.res.diag # None
    /\ output.res.diag[1].range = DefaultRange

\* the number of handler futures in flight at the given await
Holding(pc) ==
    BagCardinality([t \in {x \in InFlight : x.pc = pc} |-> CopiesIn(t, tasks)])

\* the handler future takes a step in this transition
Stepped(task) == CopiesIn(task, tasks') < CopiesIn(task, tasks)

\* C15: a completion request holds read access from its lookup to its
\* response, no store write takes effect meanwhile, and a writer never holds
\* the store together with a reader or another writer.
C15_ReadersExcludeWriters ==
    /\ [](/\ Holding("locked") = (IF lock.writer THEN 1 ELSE 0)
          /\ Holding("reading") = lock.readers
          /\ lock.writer => lock.readers = 0)
    /\ [][Holding("reading") > 0 => documents' = documents]_vars

C15_Witness ==
    /\ Holding("reading") > 0
    /\ documents[editing] # None
    /\ \E task \in InFlight :
          /\ task.pc = "start"
          /\ task.kind \in {"did_open", "did_close"}

\* C17: a didChange without content changes leaves the store alone and
\* publishes nothing; one with several entries stores the text of the last
\* entry only and ends with its one publish, of the analysis of that text.
C17_ChangeListHandling ==
    [][\A task \in InFlight :
          (task.kind = "did_change" /\ Stepped(task)) =>
             LET cs == task.content_changes
                 u == task.uri
             IN IF cs = <<>>
                THEN /\ documents' = documents
                     /\ client' = client
                     /\ published' = published
                     /\ BagCardinality(tasks') = BagCardinality(tasks) - 1
                ELSE CASE task.pc = "start" ->
                            /\ documents' = documents
                            /\ client' = client
                            /\ published' = published
                       [] task.pc = "locked" ->
                            /\ documents' = [documents EXCEPT ![u] = Some(cs[Len(cs)])]
                            /\ client' = client
                            /\ published' = published
                       [] task.pc = "publish" ->
                            /\ documents' = documents
                            /\ (client'[u] = <<>>) <=> Passes(cs[Len(cs)])
                            /\ published'[u].from = Some(cs[Len(cs)])
                            /\ BagCardinality(tasks') = BagCardinality(tasks) - 1]_vars

C17_Witness ==
    \E task \in InFlight :
        /\ task.kind = "did_change"
        /\ Len(task.content_changes) >= 2
        /\ task.content_changes[1] # task.content_changes[Len(task.content_changes)]
        /\ task.pc = "publish"
        /\ documents[task.uri] =
              Some(task.content_changes[Len(task.content_changes)])

\* C18: a completion request never changes the store and never publishes
\* diagnostics; the diagnostic of its own analysis pass is dropped.
C18_CompletionHasNoEffect ==
    [][\A task \in InFlight :
          (task.kind = "completion" /\ Stepped(task)) =>
             /\ documents' = documents
             /\ client' = client
             /\ published' = published]_vars

C18_Witness ==
    /\ lastCompletion # None
    /\ lastCompletion[1].doc = Some(ParseErrorText)
    /\ lastCompletion[1].response # None
    /\ client[lastCompletion[1].uri] = <<>>
    /\ documents[lastCompletion[1].uri] = Some(ParseErrorText)

\* C19: the store lock is held only between its acquisition and the store
\* operation, never across the await of a publish; some handler can always
\* step, and under a fair scheduler all handlers in flight finish.
C19_HandlersFinish ==
    /\ [](/\ lock.writer => Holding("locked") = 1
          /\ lock.readers > 0 => Holding("reading") = lock.readers
          /\ tasks # EmptyBag => ENABLED HandlerStep)
    /\ (tasks # EmptyBag) ~> (tasks = EmptyBag)

C19_Witness ==
    /\ Holding("publish") > 0
    /\ Holding("locked") = 1
    /\ \E task \in InFlight : task.pc = "start"

====
